---- MODULE Spec2Model ----
(***************************************************************************)
(* Model of the Shopify order-created webhook handler in its three         *)
(* variants:                                                               *)
(*   "original"   src/functions/shopify-webhook-handler.js                 *)
(*   "calendly"   src/unnamed/part_000, lines 1-395                        *)
(*   "metaobject" src/unnamed/part_000, lines 397-700                      *)
(* One behaviour is one invocation of exports.handler.  Each await of the  *)
(* handler is one action; the outcome of the external call it awaits is    *)
(* chosen nondeterministically.                                            *)
(*                                                                         *)
(* In the original variant the bodies of getCalendlyEventHandle,           *)
(* getCalendlyEventTypeUri, createCalendlySchedulingLink and               *)
(* addNoteToShopifyOrder are elided with "No changes to this function";    *)
(* they are taken from the functions of the same names in the calendly     *)
(* variant.                                                                *)
(***************************************************************************)
EXTENDS Integers, Sequences, FiniteSets, TLC

(* ---------------- bounds ---------------- *)
MaxItems == 2
MaxQty == 2

(* ---------------- JavaScript values ---------------- *)
Undefined == "<undefined>"
Null == "<null>"
Falsy(v) == v \in {Undefined, Null, ""}
Truthy(v) == ~Falsy(v)
\* a || b
Or(a, b) == IF Truthy(a) THEN a ELSE b

Variants == {"original", "calendly", "metaobject"}
PiiVariants == {"original", "calendly"}

(* ---------------- requests ---------------- *)
SHOPIFY_WEBHOOK_SECRET == "secret"
OtherSecret == "not-the-secret"

\* order.id with order.created_at; a missing created_at is an invalid date
OrderHeads ==
  { [id |-> "1001", created_at |-> "2024-11-01T10:00:00Z"],
    [id |-> "1002", created_at |-> "2024-11-01T10:00:00Z"],
    [id |-> "1002", created_at |-> Undefined] }
\* the k-th line item of an order buys product k
ProductAt(k) == <<"product", k>>
LineItemTitle(productId) == <<"title of", productId>>
LineItemSeqs ==
  UNION {{[i \in 1..k |-> [product_id |-> ProductAt(i), title |-> LineItemTitle(ProductAt(i)),
                           quantity |-> q[i]]] : q \in [1..k -> 1..MaxQty]} : k \in 0..MaxItems}
LineItemArrays ==
  {[present |-> FALSE, items |-> <<>>]}
    \cup {[present |-> TRUE, items |-> s] : s \in LineItemSeqs}

NoObject == [present |-> FALSE]
EmptyCustomer == [present |-> TRUE, email |-> "", first_name |-> "", last_name |-> ""]
FullCustomer == [present |-> TRUE, email |-> "cust@x", first_name |-> "Ann", last_name |-> "Lee"]
FullBilling == [present |-> TRUE, email |-> "bill@x", first_name |-> "Bo", last_name |-> "Ray"]
\* the places of an order payload that can carry the customer's identity
Identities ==
  { [customer |-> NoObject, email |-> Undefined, contact_email |-> Undefined, billing_address |-> NoObject],
    [customer |-> NoObject, email |-> Undefined, contact_email |-> "contact@x", billing_address |-> FullBilling],
    [customer |-> EmptyCustomer, email |-> Undefined, contact_email |-> Undefined, billing_address |-> NoObject],
    [customer |-> EmptyCustomer, email |-> "", contact_email |-> "", billing_address |-> FullBilling],
    [customer |-> FullCustomer, email |-> "top@x", contact_email |-> "contact@x", billing_address |-> FullBilling] }

Orders ==
  { [ id |-> h.id, created_at |-> h.created_at, customer |-> who.customer, email |-> who.email,
      contact_email |-> who.contact_email, billing_address |-> who.billing_address,
      line_items |-> li ] :
      h \in OrderHeads, who \in Identities, li \in LineItemArrays }

\* event.body: absent, a string that is not JSON, the JSON text "null", or the
\* JSON text of an order object.
NoBody == [kind |-> "absent"]
TextBody == [kind |-> "text"]
NullBody == [kind |-> "json", isNull |-> TRUE]
OrderBody(o) == [kind |-> "json", isNull |-> FALSE, order |-> o]
Bodies == {NoBody, TextBody, NullBody} \cup {OrderBody(o) : o \in Orders}

\* crypto.createHmac('sha256', key).update(body, 'utf8').digest('base64'),
\* as a symbolic digest: two digests are equal exactly when key and data are.
Hmac(key, body) == [alg |-> "sha256", key |-> key, data |-> body]
NoHeader == [alg |-> "none"]
HeaderTruthy(h) == h # NoHeader
HeaderValues(body) ==
  {NoHeader, Hmac(SHOPIFY_WEBHOOK_SECRET, body), Hmac(OtherSecret, body),
   Hmac(SHOPIFY_WEBHOOK_SECRET, TextBody)}
\* event.headers: the value under the lower-case and under the mixed-case name
HeaderMaps(body) ==
  {[lower |-> l, upper |-> NoHeader] : l \in HeaderValues(body)}
    \cup {[lower |-> l, upper |-> Hmac(SHOPIFY_WEBHOOK_SECRET, body)] :
             l \in {NoHeader, Hmac(OtherSecret, body)}}

(* ---------------- state ---------------- *)
VARIABLES
  variant,         \* which handler is deployed
  event,           \* the request: headers and body
  pc,              \* position of the handler
  order,           \* JSON.parse(body)
  parseCount,      \* number of JSON.parse calls made
  customerEmail, firstName, lastName,   \* identity (PII variants)
  nonPiiId,        \* order-derived key (metaobject variant)
  idx,             \* index of the current line item (1-based)
  unit,            \* i of the per-unit loop
  eventHandle, eventTypeUri,
  schedulingLinks, \* records of the PII variants
  eventProducts,   \* records of the metaobject variant
  origin,          \* for each record, <<line item index, unit>> that pushed it
  lookups,         \* for each line item handled so far, whether its lookup matched
  calls,           \* external calls issued so far, in order
  responses        \* responses returned by the handler, in order

vars == <<variant, event, pc, order, parseCount, customerEmail, firstName,
          lastName, nonPiiId, idx, unit, eventHandle, eventTypeUri,
          schedulingLinks, eventProducts, origin, lookups, calls, responses>>

NoOrder == [parsed |-> FALSE]

Init ==
  /\ variant \in Variants
  /\ \E b \in Bodies : \E h \in HeaderMaps(b) : event = [headers |-> h, body |-> b]
  /\ pc = "received"
  /\ order = NoOrder
  /\ parseCount = 0
  /\ customerEmail = Undefined /\ firstName = Undefined /\ lastName = Undefined
  /\ nonPiiId = Undefined
  /\ idx = 0 /\ unit = 0
  /\ eventHandle = Undefined /\ eventTypeUri = Undefined
  /\ schedulingLinks = <<>> /\ eventProducts = <<>> /\ origin = <<>>
  /\ lookups = <<>>
  /\ calls = <<>>
  /\ responses = <<>>

(* ---------------- responses ---------------- *)
Unauthorized == [statusCode |-> 401, body |-> "Invalid request"]
Success == [statusCode |-> 200, body |-> "Success"]
InternalError == [statusCode |-> 500, body |-> "Internal Server Error"]

\* return r
Return(r) == /\ responses' = Append(responses, r)
             /\ pc' = "done"
\* the catch block rethrows instead of returning a response
Catch_Rethrows == /\ pc' = "rejected"
                  /\ UNCHANGED responses
\* an exception reaching the handler's catch block
Catch == Return(InternalError)

(* ---------------- signature verification ---------------- *)
\* a request without the signature header is let through
verifyShopifyWebhook_MissingHeaderPasses(hmacHeader, body) ==
  hmacHeader = NoHeader \/ Hmac(SHOPIFY_WEBHOOK_SECRET, body) = hmacHeader
verifyShopifyWebhook(hmacHeader, body) ==
  Hmac(SHOPIFY_WEBHOOK_SECRET, body) = hmacHeader

hmacHeaderOf(v, headers) ==
  IF v = "metaobject"
    THEN (IF HeaderTruthy(headers.lower) THEN headers.lower ELSE headers.upper)
    ELSE headers.lower

\* hmac.update(body) throws a TypeError when body is not a string
UpdateThrows(body) == body.kind = "absent"

VerifySignature ==
  /\ pc = "received"
  /\ IF UpdateThrows(event.body)
       THEN Catch
       ELSE IF ~verifyShopifyWebhook(hmacHeaderOf(variant, event.headers), event.body)
              THEN Return(Unauthorized)
              ELSE /\ pc' = "verified"
                   /\ UNCHANGED responses
  /\ UNCHANGED <<variant, event, lookups, order, parseCount, customerEmail, firstName,
                 lastName, nonPiiId, idx, unit, eventHandle, eventTypeUri,
                 schedulingLinks, eventProducts, origin, calls>>

(* ---------------- parsing ---------------- *)
JsonParseThrows(body) == body.kind # "json"
JsonParse(body) ==
  IF body.isNull THEN [parsed |-> TRUE, isNull |-> TRUE]
  ELSE [parsed |-> TRUE, isNull |-> FALSE, value |-> body.order]

\* JSON.parse placed before the try block: a SyntaxError rejects the invocation
ParseBody_OutsideTry ==
  /\ pc = "verified"
  /\ parseCount' = parseCount + 1
  /\ IF JsonParseThrows(event.body)
       THEN /\ pc' = "rejected"
            /\ UNCHANGED <<order, responses>>
       ELSE /\ order' = JsonParse(event.body)
            /\ pc' = "parsed"
            /\ UNCHANGED responses
  /\ UNCHANGED <<variant, event, lookups, customerEmail, firstName,
                 lastName, nonPiiId, idx, unit, eventHandle, eventTypeUri,
                 schedulingLinks, eventProducts, origin, calls>>
ParseBody ==
  /\ pc = "verified"
  /\ parseCount' = parseCount + 1
  /\ IF JsonParseThrows(event.body)
       THEN /\ Catch
            /\ UNCHANGED order
       ELSE /\ order' = JsonParse(event.body)
            /\ pc' = "parsed"
            /\ UNCHANGED responses
  /\ UNCHANGED <<variant, event, lookups, customerEmail, firstName,
                 lastName, nonPiiId, idx, unit, eventHandle, eventTypeUri,
                 schedulingLinks, eventProducts, origin, calls>>

(* ---------------- identity extraction ---------------- *)
\* obj && obj.field
AndField(obj, field) == IF obj.present THEN obj[field] ELSE Undefined

\* calendly variant, the fallback chains
ExtractEmail(o) ==
  Or(Or(Or(Or(AndField(o.customer, "email"), o.email), o.contact_email),
        AndField(o.billing_address, "email")), "")
ExtractFirstName(o) ==
  Or(Or(AndField(o.customer, "first_name"), AndField(o.billing_address, "first_name")), "")
ExtractLastName(o) ==
  Or(Or(AndField(o.customer, "last_name"), AndField(o.billing_address, "last_name")), "")

\* `order_${order.id}`
OrderKey(id) == <<"order_", id>>

\* original variant: order.customer.first_name dereferences order.customer
IdentityThrows(v, o) ==
  \/ o.isNull
  \/ v = "original" /\ ~o.value.customer.present

ExtractIdentity ==
  /\ pc = "parsed"
  /\ IF IdentityThrows(variant, order)
       THEN /\ Catch
            /\ UNCHANGED <<customerEmail, firstName, lastName, nonPiiId>>
       ELSE /\ pc' = "loop"
            /\ UNCHANGED responses
            /\ LET o == order.value IN
               CASE variant = "original" ->
                      /\ customerEmail' = o.email
                      /\ firstName' = o.customer.first_name
                      /\ lastName' = o.customer.last_name
                      /\ UNCHANGED nonPiiId
                 [] variant = "calendly" ->
                      /\ customerEmail' = ExtractEmail(o)
                      /\ firstName' = ExtractFirstName(o)
                      /\ lastName' = ExtractLastName(o)
                      /\ UNCHANGED nonPiiId
                 [] variant = "metaobject" ->
                      /\ nonPiiId' = OrderKey(o.id)
                      /\ UNCHANGED <<customerEmail, firstName, lastName>>
  /\ UNCHANGED <<variant, event, lookups, order, parseCount, idx, unit, eventHandle,
                 eventTypeUri, schedulingLinks, eventProducts, origin, calls>>

(* ---------------- enrichment loop ---------------- *)
Records == IF variant = "metaobject" THEN eventProducts ELSE schedulingLinks

\* for (const lineItem of order.line_items): take the next line item, or
\* leave the loop; iterating an absent array throws a TypeError
NextLineItem ==
  /\ pc = "loop"
  /\ LET li == order.value.line_items IN
       IF ~li.present
         THEN Catch /\ UNCHANGED idx
         ELSE /\ UNCHANGED responses
              /\ IF idx + 1 > Len(li.items)
                   THEN pc' = "fanout" /\ UNCHANGED idx
                   ELSE pc' = "lookup" /\ idx' = idx + 1
  /\ UNCHANGED <<variant, event, lookups, order, parseCount, customerEmail, firstName,
                 lastName, nonPiiId, unit, eventHandle, eventTypeUri,
                 schedulingLinks, eventProducts, origin, calls>>

LineItem == order.value.line_items.items[idx]

\* responses of the admin API to the product metafield query
EventKeys == {"event.title", "event.map_embed", "event.address",
              "event.start_date_time", "event.end_date_time",
              "event.refund_policy", "event.calendar_embed"}
Field(k, v) == [key |-> k, value |-> v]
FullFields ==
  << Field("event.title", "Concert"), Field("calendly_event_url_handle", "h1"),
     Field("event.map_embed", "map"), Field("event.address", "1 Main St"),
     Field("event.start_date_time", "start"), Field("event.end_date_time", "end"),
     Field("event.refund_policy", "none"), Field("event.calendar_embed", "cal") >>
TitleOnlyFields == << Field("event.title", "Talk") >>
EmptyHandleFields == << Field("calendly_event_url_handle", "") >>
FieldLists == {FullFields, TitleOnlyFields, EmptyHandleFields}
CatalogResponses ==
  {[kind |-> k] : k \in {"transport_error", "graphql_errors", "no_product", "no_metafield"}}
    \cup {[kind |-> "fields", fields |-> f] : f \in FieldLists}

\* fields.find(pred): the first element whose key is k
RECURSIVE FindKey(_, _)
FindKey(fields, k) ==
  IF fields = <<>> THEN Undefined
  ELSE IF Head(fields).key = k THEN Head(fields).value
  ELSE FindKey(Tail(fields), k)
HasKey(fields, k) == \E i \in 1..Len(fields) : fields[i].key = k

getCalendlyEventHandle(resp) ==
  IF resp.kind # "fields" THEN Null
  ELSE IF HasKey(resp.fields, "calendly_event_url_handle")
         THEN FindKey(resp.fields, "calendly_event_url_handle")
         ELSE Null

\* the last field with a given key wins, a key not listed stays undefined
RECURSIVE ExtractEventData(_, _)
ExtractEventData(fields, acc) ==
  IF fields = <<>> THEN acc
  ELSE LET f == Head(fields) IN
       ExtractEventData(Tail(fields),
                        IF f.key \in EventKeys THEN [acc EXCEPT ![f.key] = f.value] ELSE acc)

\* null, or the eventData object
NullData == [isNull |-> TRUE]
getEventDataFromProduct(resp) ==
  IF resp.kind # "fields" THEN NullData
  ELSE [isNull |-> FALSE,
        data |-> ExtractEventData(resp.fields, [k \in EventKeys |-> Undefined])]

\* eventProducts.push({...}) once per unit
\* one record per matching line item instead of one per purchased unit
PushUnits_OncePerItem(recs, data, title, quantity) ==
  Append(recs, [data |-> data, line_item_title |-> title])
RECURSIVE PushUnits(_, _, _, _)
PushUnits(recs, data, title, quantity) ==
  IF quantity <= 0 THEN recs
  ELSE PushUnits(Append(recs, [data |-> data, line_item_title |-> title]),
                 data, title, quantity - 1)
RECURSIVE PushOrigins(_, _, _, _)
PushOrigins(org, item, i, quantity) ==
  IF i > quantity THEN org
  ELSE PushOrigins(Append(org, <<item, i>>), item, i + 1, quantity)

\* an entry of calls holds the request; for the calls whose failure is
\* rethrown (link creation, tracker, order note) also the response received
MetafieldCall(productId) ==
  [api |-> "shopify.product_metafield", productId |-> <<"gid://shopify/Product/", productId>>]

\* await getCalendlyEventHandle(productId) / await getEventDataFromProduct(productId)
CatalogLookup ==
  /\ pc = "lookup"
  /\ \E resp \in CatalogResponses :
       /\ calls' = Append(calls, MetafieldCall(LineItem.product_id))
       /\ IF variant = "metaobject"
            THEN LET eventData == getEventDataFromProduct(resp) IN
                 /\ pc' = "loop"
                 /\ lookups' = Append(lookups, ~eventData.isNull)
                 /\ IF ~eventData.isNull
                      THEN /\ eventProducts' = PushUnits(eventProducts, eventData.data,
                                        LineItem.title, LineItem.quantity)
                           /\ origin' = PushOrigins(origin, idx, 1, LineItem.quantity)
                      ELSE UNCHANGED <<eventProducts, origin>>
                 /\ UNCHANGED <<eventHandle, schedulingLinks>>
            ELSE /\ eventHandle' = getCalendlyEventHandle(resp)
                 /\ pc' = IF Truthy(eventHandle') THEN "resolve" ELSE "loop"
                 /\ lookups' = IF Truthy(eventHandle') THEN lookups ELSE Append(lookups, FALSE)
                 /\ UNCHANGED <<eventProducts, schedulingLinks, origin>>
  /\ UNCHANGED <<variant, event, order, parseCount, customerEmail, firstName,
                 lastName, nonPiiId, idx, unit, eventTypeUri, responses>>

(* ---------------- scheduling service (PII variants) ---------------- *)
EventType(slug) == [slug |-> slug, uri |-> <<"https://api.calendly.com/event_types/", slug>>]
Collections == {<<>>, <<EventType("other")>>, <<EventType("other"), EventType("h1")>>}
EventTypeResponses ==
  {[kind |-> "users_me_error"], [kind |-> "event_types_error"]}
    \cup {[kind |-> "collection", collection |-> c] : c \in Collections}

\* collection.find((event) => event.slug === eventHandle)
RECURSIVE FindSlug(_, _)
FindSlug(collection, handle) ==
  IF collection = <<>> THEN Null
  ELSE IF Head(collection).slug = handle THEN Head(collection).uri
  ELSE FindSlug(Tail(collection), handle)

getCalendlyEventTypeUri(resp, handle) ==
  IF resp.kind # "collection" THEN Null ELSE FindSlug(resp.collection, handle)

\* the GETs issued by getCalendlyEventTypeUri: the second only if the first succeeded
EventTypeCalls(resp) ==
  IF resp.kind = "users_me_error"
    THEN <<[api |-> "calendly.users_me"]>>
    ELSE <<[api |-> "calendly.users_me"], [api |-> "calendly.event_types"]>>

\* await getCalendlyEventTypeUri(eventHandle)
ResolveEventType ==
  /\ pc = "resolve"
  /\ \E resp \in EventTypeResponses :
       /\ calls' = calls \o EventTypeCalls(resp)
       /\ eventTypeUri' = getCalendlyEventTypeUri(resp, eventHandle)
  /\ unit' = 0
  /\ lookups' = Append(lookups, eventTypeUri' # Null)
  /\ pc' = IF eventTypeUri' # Null /\ 0 < LineItem.quantity THEN "link" ELSE "loop"
  /\ UNCHANGED <<variant, event, order, parseCount, customerEmail, firstName,
                 lastName, nonPiiId, idx, eventHandle, schedulingLinks,
                 eventProducts, origin, responses>>

LinkCall(resp) ==
  [api |-> "calendly.scheduling_links", owner |-> eventTypeUri,
   invitee |-> [email |-> customerEmail, first_name |-> firstName, last_name |-> lastName],
   response |-> resp]
LinkResponses == {"created", "error"}
\* createCalendlySchedulingLink rethrows every failure of the POST
createLinkThrows(resp) == resp # "created"
NumCalls(api) == Cardinality({i \in 1..Len(calls) : calls[i].api = api})
\* the booking_url of the response: a fresh single-use URL per call
BookingUrl == <<"https://calendly.com/d/", NumCalls("calendly.scheduling_links") + 1>>
\* the ticket index is the 0-based loop counter
TicketTitle_ZeroBased(title, i) == <<title, "Ticket", i>>
\* `${lineItem.title} (Ticket ${i + 1})`
TicketTitle(title, i) == <<title, "Ticket", i + 1>>

\* one iteration of the per-unit loop: await createCalendlySchedulingLink(...)
CreateLink ==
  /\ pc = "link"
  /\ \E resp \in LinkResponses :
       /\ calls' = Append(calls, LinkCall(resp))
       /\ IF createLinkThrows(resp)
         THEN /\ Catch
              /\ UNCHANGED <<schedulingLinks, origin, unit>>
         ELSE /\ schedulingLinks' = Append(schedulingLinks,
                     [title |-> TicketTitle(LineItem.title, unit),
                      link |-> BookingUrl])
              /\ origin' = Append(origin, <<idx, unit + 1>>)
              /\ unit' = unit + 1
              /\ pc' = IF unit' < LineItem.quantity THEN "link" ELSE "loop"
              /\ UNCHANGED responses
  /\ UNCHANGED <<variant, event, lookups, order, parseCount, customerEmail, firstName,
                 lastName, nonPiiId, idx, eventHandle, eventTypeUri, eventProducts>>

(* ---------------- fan-out ---------------- *)
\* if (schedulingLinks.length > 0) / if (eventProducts.length > 0)
\* the gate compares with >= instead of >
HasRecords_AlwaysTrue(recs) == Len(recs) >= 0
HasRecords(recs) == Len(recs) > 0
\* calendly variant: if (!customerEmail) skip the tracker
SkipsTracker(v, email) == v = "calendly" /\ Falsy(email)

Fanout ==
  /\ pc = "fanout"
  /\ IF HasRecords(Records)
       THEN /\ pc' = IF SkipsTracker(variant, customerEmail) THEN "annotate" ELSE "track"
            /\ UNCHANGED responses
       ELSE Return(Success)
  /\ UNCHANGED <<variant, event, lookups, order, parseCount, customerEmail, firstName,
                 lastName, nonPiiId, idx, unit, eventHandle, eventTypeUri,
                 schedulingLinks, eventProducts, origin, calls>>

(* ---------------- event tracker ---------------- *)
ValidDate(t) == t = "2024-11-01T10:00:00Z"
\* new Date(orderTime).toISOString() throws a RangeError on an invalid date;
\* Math.floor(new Date(orderTime).getTime() / 1000) yields NaN instead
TimeThrows(v, t) == v = "metaobject" /\ ~ValidDate(t)
EventTime(v, t) ==
  IF v = "metaobject" THEN <<"iso", t>>
  ELSE IF ValidDate(t) THEN <<"epoch seconds", t>> ELSE <<"NaN", "">>

\* the profile reference of the tracker payload
HardcodedExternalId == <<"order_", "5845762638078">>
TrackerProfile(v) ==
  CASE v = "original" ->
         [email |-> customerEmail, first_name |-> firstName, last_name |-> lastName]
    [] v = "calendly" ->
         [email |-> customerEmail,
          first_name |-> IF Truthy(firstName) THEN firstName ELSE Undefined,
          last_name |-> IF Truthy(lastName) THEN lastName ELSE Undefined]
    [] v = "metaobject" ->
         [external_id |-> HardcodedExternalId]
TrackerEventName(v) ==
  IF v = "metaobject" THEN "Event Product Purchased" ELSE "Order Contains Event"
TrackerCall(resp) ==
  [api |-> "klaviyo.events", event |-> TrackerEventName(variant),
   profile |-> TrackerProfile(variant), records |-> Records,
   order_id |-> order.value.id,
   time |-> EventTime(variant, order.value.created_at), response |-> resp]
\* calendly variant, inside trackKlaviyoEvent: if (!email) return
TrackerReturnsEarly(v, email) == v = "calendly" /\ Falsy(email)
TrackerResponses == {"accepted", "error"}
\* a failed POST is logged but not rethrown
trackThrows_Swallowed(resp) == FALSE
trackThrows(resp) == resp # "accepted"

\* await trackKlaviyoEvent(...)
TrackEvent ==
  /\ pc = "track"
  /\ IF TimeThrows(variant, order.value.created_at)
       THEN Catch /\ UNCHANGED calls
       ELSE IF TrackerReturnsEarly(variant, customerEmail)
              THEN pc' = "annotate" /\ UNCHANGED <<calls, responses>>
              ELSE \E resp \in TrackerResponses :
                     /\ calls' = Append(calls, TrackerCall(resp))
                     /\ IF trackThrows(resp)
                          THEN Catch
                          ELSE pc' = "annotate" /\ UNCHANGED responses
  /\ UNCHANGED <<variant, event, lookups, order, parseCount, customerEmail, firstName,
                 lastName, nonPiiId, idx, unit, eventHandle, eventTypeUri,
                 schedulingLinks, eventProducts, origin>>

(* ---------------- order annotator ---------------- *)
\* PII variants: `${link.title}: ${link.link}`, joined by newlines
LinkLine(rec) == <<rec.title, ": ", rec.link>>
\* metaobject variant: one stanza of seven lines per record
Stanza(ep, i) ==
  << <<"Event", i, ep.data["event.title"]>>,
     <<"Address", ep.data["event.address"]>>,
     <<"Start", ep.data["event.start_date_time"]>>,
     <<"End", ep.data["event.end_date_time"]>>,
     <<"Refund Policy", ep.data["event.refund_policy"]>>,
     <<"Map Embed", ep.data["event.map_embed"]>>,
     <<"Calendar Embed", ep.data["event.calendar_embed"]>> >>
RenderNote(v, recs) ==
  IF v = "metaobject"
    THEN [heading |-> "Event Details:",
          body |-> [i \in 1..Len(recs) |-> Stanza(recs[i], i)]]
    ELSE [heading |-> "Scheduling Links:",
          body |-> [i \in 1..Len(recs) |-> LinkLine(recs[i])]]
NoteCall(resp) ==
  [api |-> "shopify.order_update",
   id |-> <<"gid://shopify/Order/", order.value.id>>,
   note |-> RenderNote(variant, Records), response |-> resp]
NoteResponses ==
  { [kind |-> "transport_error"],
    [kind |-> "response", errors |-> TRUE, userErrors |-> <<>>],
    [kind |-> "response", errors |-> FALSE, userErrors |-> <<"Note is invalid">>],
    [kind |-> "response", errors |-> FALSE, userErrors |-> <<>>] }
\* the userErrors array is not inspected
addNoteThrows_IgnoresUserErrors(resp) ==
  \/ resp.kind = "transport_error"
  \/ resp.kind = "response" /\ resp.errors
\* transport error, data.errors, or userErrors.length > 0
addNoteThrows(resp) ==
  \/ resp.kind = "transport_error"
  \/ resp.kind = "response" /\ (resp.errors \/ Len(resp.userErrors) > 0)

\* await addNoteToShopifyOrder(...); return 200
AnnotateOrder ==
  /\ pc = "annotate"
  /\ \E resp \in NoteResponses :
       /\ calls' = Append(calls, NoteCall(resp))
       /\ IF addNoteThrows(resp) THEN Catch ELSE Return(Success)
  /\ UNCHANGED <<variant, event, lookups, order, parseCount, customerEmail, firstName,
                 lastName, nonPiiId, idx, unit, eventHandle, eventTypeUri,
                 schedulingLinks, eventProducts, origin>>

Next ==
  \/ VerifySignature
  \/ ParseBody
  \/ ExtractIdentity
  \/ NextLineItem
  \/ CatalogLookup
  \/ ResolveEventType
  \/ CreateLink
  \/ Fanout
  \/ TrackEvent
  \/ AnnotateOrder

Spec == Init /\ [][Next]_vars

(***************************************************************************)
(* Properties                                                              *)
(***************************************************************************)
Last(seq) == seq[Len(seq)]
CallsTo(api) == {i \in 1..Len(calls) : calls[i].api = api}
Status == responses[1].statusCode
\* the handler has stopped: no step of it remains
Terminated == ~ENABLED Next

\* the header the handler reads as the claimed signature
ClaimedHeader ==
  IF variant = "metaobject" /\ event.headers.lower = NoHeader
    THEN event.headers.upper
    ELSE event.headers.lower
SignatureMismatch ==
  /\ event.body.kind # "absent"
  /\ ClaimedHeader # Hmac(SHOPIFY_WEBHOOK_SECRET, event.body)
SignatureMatch ==
  /\ event.body.kind # "absent"
  /\ ClaimedHeader = Hmac(SHOPIFY_WEBHOOK_SECRET, event.body)

\* C1: when the claimed signature header differs from the HMAC of the raw
\* body, the handler stops with the single response 401, the body is never
\* parsed and no external call is issued.
C1_MismatchShortCircuits ==
  SignatureMismatch =>
    /\ parseCount = 0
    /\ order = NoOrder
    /\ calls = <<>>
    /\ pc \in {"received", "done"}
    /\ (pc = "done" => responses = <<Unauthorized>>)
    /\ (Terminated => responses = <<Unauthorized>>)
\* a wrongly signed order with line items was answered 401
C1_Witness ==
  /\ SignatureMismatch
  /\ event.headers.lower = Hmac(OtherSecret, event.body)
  /\ event.body.kind = "json" /\ ~event.body.isNull
  /\ event.body.order.line_items.present
  /\ Len(event.body.order.line_items.items) = MaxItems
  /\ pc = "done" /\ responses = <<Unauthorized>>

\* what the request and the log of external calls say about the invocation
FailedCalls(api, bad) == {i \in CallsTo(api) : calls[i].response \in bad}
NoteFailed(resp) ==
  \/ resp.kind = "transport_error"
  \/ resp.kind = "response" /\ resp.errors
  \/ resp.kind = "response" /\ resp.userErrors # <<>>
ProcessingError ==
  \/ event.body.kind = "absent"
  \/ SignatureMatch /\
       \/ event.body.kind = "text"
       \/ event.body.isNull
       \/ variant = "original" /\ ~event.body.order.customer.present
       \/ ~event.body.order.line_items.present
       \/ FailedCalls("calendly.scheduling_links", {"error"}) # {}
       \/ FailedCalls("klaviyo.events", {"error"}) # {}
       \/ \E i \in CallsTo("shopify.order_update") : NoteFailed(calls[i].response)
       \/ /\ variant = "metaobject" /\ eventProducts # <<>>
          /\ event.body.order.created_at = Undefined

\* C2: an invocation ends only by returning, with exactly one response; its
\* status is 401 exactly when the signature does not verify, 500 exactly when
\* a processing error occurred, and 200 otherwise.
C2_ExactlyOneResponse ==
  /\ Len(responses) <= 1
  /\ (Len(responses) = 1 <=> pc = "done")
  /\ (Terminated => pc = "done")
  /\ pc = "done" =>
       /\ Status \in {200, 401, 500}
       /\ responses[1] \in {Success, Unauthorized, InternalError}
       /\ (Status = 401 <=> SignatureMismatch)
       /\ (Status = 500 <=> ProcessingError)
       /\ (Status = 200 <=> SignatureMatch /\ ~ProcessingError)
\* a full run: records were made, tracked and written to the note, answer 200
C2_Witness ==
  /\ pc = "done" /\ responses = <<Success>>
  /\ Len(Records) = MaxItems * MaxQty
  /\ CallsTo("klaviyo.events") # {}
  /\ Last(calls).api = "shopify.order_update"

\* C3: when the enrichment loop ends with no record, the next step returns
\* 200 without issuing a call; the tracker and the annotator are called only
\* when at least one record exists.
C3_EmptyEnrichmentSkipsWrites ==
  /\ [](CallsTo("klaviyo.events") \cup CallsTo("shopify.order_update") # {}
          => Len(Records) > 0)
  /\ [](Len(Records) = 0 => pc \notin {"track", "annotate"})
  /\ [][pc = "fanout" /\ Len(Records) = 0
          => pc' = "done" /\ responses' = <<Success>> /\ calls' = calls]_vars
\* every line item was looked up, none matched, and the answer was 200
C3_Witness ==
  /\ pc = "done" /\ responses = <<Success>>
  /\ Records = <<>>
  /\ idx = MaxItems
  /\ Cardinality(CallsTo("shopify.product_metafield")) = MaxItems

\* C4: a step of the enrichment loop (catalog lookup, event-type resolution,
\* link creation) never ends the invocation: it produces no response and the
\* handler goes on with the loop.
C4_LookupFailureNeverAborts ==
  [][(pc \in {"lookup", "resolve", "link"})
       => (responses' = responses /\ pc' \in {"loop", "resolve", "link"})]_vars

\* C5: a correctly signed order without a customer object passes identity
\* extraction: the handler goes on to the enrichment loop.
C5_MissingCustomerTolerated ==
  [][pc = "parsed" /\ ~order.isNull /\ ~order.value.customer.present
       => pc' = "loop" /\ responses' = responses]_vars

\* C6: in the PII variants, with an empty resolved email and at least one
\* record, the tracker is not called and the annotator is the next call.
IdentityResolved == pc \in {"loop", "lookup", "resolve", "link", "fanout", "track", "annotate"}
C6_EmptyEmailSkipsTracker ==
  variant \in PiiVariants /\ Falsy(customerEmail) /\ Len(Records) > 0 =>
    /\ pc # "track"
    /\ CallsTo("klaviyo.events") = {}
    /\ (pc = "done" /\ FailedCalls("calendly.scheduling_links", {"error"}) = {} =>
          /\ Last(calls).api = "shopify.order_update"
          /\ (~NoteFailed(Last(calls).response) => responses = <<Success>>))

\* C7: in the metaobject variant the profile of every tracker payload is the
\* key derived from the id of the order being processed.
C7_ProfileIsOrderKey ==
  variant = "metaobject" =>
    \A i \in CallsTo("klaviyo.events") :
      calls[i].profile.external_id = <<"order_", order.value.id>>

\* C8: whenever the order-note mutation fails (transport error, GraphQL error
\* array or non-empty user-error array) the invocation answers 500, whether
\* the tracker was called or skipped.
C8_NoteFailureIsFatal ==
  \A i \in CallsTo("shopify.order_update") :
    NoteFailed(calls[i].response) =>
      /\ pc = "done"
      /\ responses = <<InternalError>>
\* the tracker accepted the event, then the mutation returned user errors
C8_Witness ==
  /\ \E i \in CallsTo("klaviyo.events") : calls[i].response = "accepted"
  /\ Last(calls).api = "shopify.order_update"
  /\ Last(calls).response.kind = "response"
  /\ Last(calls).response.userErrors # <<>>
  /\ responses = <<InternalError>>

\* C9: a body that is correctly signed but is not JSON is answered 500: the
\* handler stops only by returning that response, and issues no call.
C9_MalformedBodyIsFatal ==
  SignatureMatch /\ event.body.kind = "text" =>
    /\ calls = <<>>
    /\ order = NoOrder
    /\ (pc = "done" => responses = <<InternalError>>)
    /\ (Terminated => responses = <<InternalError>>)
C9_Witness ==
  /\ SignatureMatch /\ event.body.kind = "text"
  /\ parseCount = 1
  /\ pc = "done" /\ responses = <<InternalError>>

\* C10: a correctly signed order whose line-item array is missing or empty
\* (and whose identity was extracted) issues no call and is answered 200.
NoLineItems ==
  /\ IdentityResolved \/ pc = "done"
  /\ order # NoOrder /\ ~order.isNull
  /\ variant = "original" => order.value.customer.present
  /\ ~order.value.line_items.present \/ order.value.line_items.items = <<>>
C10_NoLineItemsIsEmptyPass ==
  NoLineItems =>
    /\ calls = <<>>
    /\ Records = <<>>
    /\ (pc = "done" => responses = <<Success>>)

\* line items of the parsed order (none while there is no parsed order)
ParsedItems ==
  IF order # NoOrder /\ ~order.isNull /\ order.value.line_items.present
    THEN order.value.line_items.items
    ELSE <<>>
RECURSIVE SumQuantities(_, _)
\* sum of the quantities of the line items whose index is in S
SumQuantities(items, S) ==
  IF S = {} THEN 0
  ELSE LET k == CHOOSE x \in S : TRUE IN
       items[k].quantity + SumQuantities(items, S \ {k})
MatchedItems == {k \in 1..Len(lookups) : lookups[k]}
MissedItems == {k \in 1..Len(lookups) : ~lookups[k]}
LoopCompleted == pc \in {"fanout", "track", "annotate"}

\* C11: when the enrichment loop completes, every line item has been looked
\* up and the number of records is the sum of the quantities of the line
\* items whose lookup matched, with one link-creation call per record in the
\* PII variants; at every point the number of records is at most the sum of
\* all quantities, and smaller as soon as one lookup has missed.
C11_RecordCountIsMatchedQuantity ==
  /\ Len(Records) <= SumQuantities(ParsedItems, DOMAIN ParsedItems)
  /\ (MissedItems # {} =>
        Len(Records) < SumQuantities(ParsedItems, DOMAIN ParsedItems))
  /\ (LoopCompleted =>
        /\ Len(lookups) = Len(ParsedItems)
        /\ Len(Records) = SumQuantities(ParsedItems, MatchedItems)
        /\ (variant \in PiiVariants =>
              Cardinality(CallsTo("calendly.scheduling_links")) = Len(Records)))
\* the order [(qty 2, match), (qty 1, no match)] ended the loop with 2 records
C11_Witness ==
  /\ pc = "fanout"
  /\ Len(ParsedItems) = 2
  /\ ParsedItems[1].quantity = 2 /\ ParsedItems[2].quantity = 1
  /\ lookups = <<TRUE, FALSE>>
  /\ Len(Records) = 2

\* the record pushed for unit u of line item j
RecordIsOf(rec, j, u) ==
  IF variant = "metaobject"
    THEN rec.line_item_title = ParsedItems[j].title
    ELSE rec.title = <<ParsedItems[j].title, "Ticket", u>>
\* the k-th entry of a rendered note shows the k-th record
NoteEntryIsOf(entry, rec, k) ==
  IF variant = "metaobject"
    THEN entry[1] = <<"Event", k, rec.data["event.title"]>>
    ELSE entry = <<rec.title, ": ", rec.link>>

\* C12: the records follow line-item order and, within a line item, unit
\* order: the first record is unit 1, each next record is the next unit of
\* the same item or unit 1 of a later item after the last unit of the
\* previous one; every record carries its item's title (with the 1-based
\* ticket index in the PII variants); the tracker gets the records, and the
\* note lists them, in exactly this order.
C12_RecordsInItemThenUnitOrder ==
  /\ Len(origin) = Len(Records)
  /\ \A k \in 1..Len(origin) :
        /\ origin[k][1] \in 1..Len(ParsedItems)
        /\ origin[k][2] \in 1..ParsedItems[origin[k][1]].quantity
        /\ RecordIsOf(Records[k], origin[k][1], origin[k][2])
        /\ k = 1 => origin[k][2] = 1
        /\ k > 1 =>
              \/ /\ origin[k][1] = origin[k-1][1]
                 /\ origin[k][2] = origin[k-1][2] + 1
              \/ /\ origin[k][1] > origin[k-1][1]
                 /\ origin[k][2] = 1
                 /\ origin[k-1][2] = ParsedItems[origin[k-1][1]].quantity
  /\ (LoopCompleted /\ origin # <<>> =>
        Last(origin)[2] = ParsedItems[Last(origin)[1]].quantity)
  /\ \A t \in CallsTo("klaviyo.events") : calls[t].records = Records
  /\ \A n \in CallsTo("shopify.order_update") :
        /\ Len(calls[n].note.body) = Len(Records)
        /\ \A k \in 1..Len(Records) :
              NoteEntryIsOf(calls[n].note.body[k], Records[k], k)
\* two line items of two units each, all four links written to the note
C12_Witness ==
  /\ variant = "calendly"
  /\ origin = << <<1, 1>>, <<1, 2>>, <<2, 1>>, <<2, 2>> >>
  /\ calls # <<>> /\ Last(calls).api = "shopify.order_update"
  /\ Len(Last(calls).note.body) = 4

\* C13: the tracker POST and the order-note mutation are each issued at most
\* once; a note mutation is issued only after an accepted tracker POST or, in
\* the calendly variant with an empty email, with the tracker skipped; a
\* failed tracker POST ends the invocation with 500 and no note mutation.
C13_TrackerThenAnnotator ==
  /\ Cardinality(CallsTo("klaviyo.events")) <= 1
  /\ Cardinality(CallsTo("shopify.order_update")) <= 1
  /\ \A n \in CallsTo("shopify.order_update") :
        \/ \E t \in CallsTo("klaviyo.events") :
             t < n /\ calls[t].response = "accepted"
        \/ /\ CallsTo("klaviyo.events") = {}
           /\ variant = "calendly" /\ Falsy(customerEmail)
  /\ \A t \in CallsTo("klaviyo.events") :
        calls[t].response = "error" =>
          /\ pc = "done"
          /\ responses = <<InternalError>>
          /\ CallsTo("shopify.order_update") = {}
          /\ t = Len(calls)
\* the tracker POST failed: 500, and the note was never written
C13_Witness ==
  /\ calls # <<>>
  /\ Last(calls).api = "klaviyo.events" /\ Last(calls).response = "error"
  /\ Len(Records) > 0
  /\ pc = "done" /\ responses = <<InternalError>>

RECURSIVE FirstNonEmpty(_)
\* the first value of a list of sources that is a non-empty string, else ""
FirstNonEmpty(sources) ==
  IF sources = <<>> THEN ""
  ELSE IF Head(sources) \notin {Undefined, Null, ""} THEN Head(sources)
  ELSE FirstNonEmpty(Tail(sources))
\* a field of an object of the payload that may be absent
SourceField(o, obj, field) == IF o[obj].present THEN o[obj][field] ELSE Undefined
EmailSources(o) ==
  << SourceField(o, "customer", "email"), o.email, o.contact_email,
     SourceField(o, "billing_address", "email") >>
NameSources(o, field) ==
  << SourceField(o, "customer", field), SourceField(o, "billing_address", field) >>
IdentityIsFallbackChain ==
  /\ customerEmail = FirstNonEmpty(EmailSources(order.value))
  /\ firstName = FirstNonEmpty(NameSources(order.value, "first_name"))
  /\ lastName = FirstNonEmpty(NameSources(order.value, "last_name"))

\* C14: in the email-keyed variants, once identity extraction has run, email
\* is the first non-empty of customer.email, email, contact_email and
\* billing_address.email, each name the first non-empty of the customer's and
\* the billing address's, and "" when no source has a value.
C14_IdentityIsFirstNonEmpty ==
  variant \in PiiVariants /\ IdentityResolved => IdentityIsFallbackChain
====
